---- MODULE Spec2Model ----
(***************************************************************************)
(* A model of train-network.py: get_notes (the event extractor) and        *)
(* prepare_sequences (the sequence encoder).                               *)
(*                                                                         *)
(* Strings are sequences of code points, so that str(), "." .join and the  *)
(* lexicographic order of sorted() are computed rather than assumed.       *)
(* The collaborators (music21, numpy, keras.utils, pickle) are modelled by *)
(* what the calls in the source obtain from them.                          *)
(***************************************************************************)
EXTENDS Integers, Sequences, FiniteSets, TLC

(***************************************************************************)
(* Bounds of the model.                                                    *)
(***************************************************************************)
MaxTail == 2
MaxPattern == 2
MaxClasses == 3
MaxFiles == 2

(***************************************************************************)
(* Generic helpers on sequences.                                           *)
(***************************************************************************)
Range(s) == {s[k] : k \in 1..Len(s)}

Min(a, b) == IF a < b THEN a ELSE b

\* Python's s[lo:hi] for 0 <= lo, hi (0-based, hi exclusive, clipped).
Slice(s, lo, hi) ==
  LET h == Min(hi, Len(s))
  IN  IF lo >= h THEN <<>> ELSE [k \in 1..(h - lo) |-> s[lo + k]]

\* All sequences over S of length 0..n.
SeqsUpTo(S, n) == UNION {[1..k -> S] : k \in 0..n}

(***************************************************************************)
(* Strings.                                                                *)
(***************************************************************************)
\* The code points used below: "#" 35, "." 46, "0".."9" 48..57, "A".."G" 65..71.
\* str(n) for an int n >= 0: its decimal digits.
RECURSIVE IntToStr(_)
IntToStr(n) ==
  IF n < 10 THEN <<48 + n>>
  ELSE IntToStr(n \div 10) \o <<48 + (n % 10)>>

\* sep.join(strs)
RECURSIVE Join(_, _)
Join(sep, strs) ==
  IF Len(strs) = 0 THEN <<>>
  ELSE IF Len(strs) = 1 THEN strs[1]
  ELSE strs[1] \o sep \o Join(sep, Tail(strs))

\* Python's a < b on str: code point by code point, a proper prefix first.
RECURSIVE StrLess(_, _)
StrLess(a, b) ==
  IF Len(b) = 0 THEN FALSE
  ELSE IF Len(a) = 0 THEN TRUE
  ELSE IF a[1] # b[1] THEN a[1] < b[1]
  ELSE StrLess(Tail(a), Tail(b))

(***************************************************************************)
(* State.  get_notes: files is what glob.glob(directory) returns, disk the *)
(* bytes of data/notes, disk_before what they were when get_notes was      *)
(* called, the rest are the locals of the call.                            *)
(* prepare_sequences: ps_notes and num_pitch_classes are the arguments,    *)
(* the rest are the locals of the call.                                    *)
(***************************************************************************)
VARIABLES
  files, disk, disk_before, gn_pc, file, parsed_midi, notes_by_instrument, notes,
  returned, console, writes,
  ps_pc, ps_notes, num_pitch_classes, pitch_names, pitch_to_int, i,
  input_sequences, output_sequence, num_sequences, reshaped, normalized,
  categorical, ps_raised

gn_vars == <<files, disk, disk_before, gn_pc, file, parsed_midi, notes_by_instrument,
             notes, returned, console, writes>>

ps_vars == <<ps_pc, ps_notes, num_pitch_classes, pitch_names, pitch_to_int, i,
             input_sequences, output_sequence, num_sequences, reshaped,
             normalized, categorical, ps_raised>>

vars == <<gn_vars, ps_vars>>

(***************************************************************************)
(* prepare_sequences(notes, num_pitch_classes)                             *)
(***************************************************************************)
sequence_length == 100

\* sorted(S) for a set S of strings: ascending by StrLess.
RECURSIVE Sorted(_)
Sorted(S) ==
  IF S = {} THEN <<>>
  ELSE LET m == CHOOSE x \in S : \A y \in S \ {x} : StrLess(x, y)
       IN  <<m>> \o Sorted(S \ {m})

\* The distinct elements of s in order of first occurrence.
RECURSIVE Distinct(_)
Distinct(s) ==
  IF Len(s) = 0 THEN <<>>
  ELSE LET d == Distinct(SubSeq(s, 1, Len(s) - 1))
       IN  IF s[Len(s)] \in Range(d) THEN d ELSE Append(d, s[Len(s)])

\* A faulty variant of PitchNames: list(set(...)) without sorted().
PitchNamesUnsorted(ns) == Distinct(ns)

\* pitch_names = sorted(set(note for note in notes))
PitchNames(ns) == Sorted(Range(ns))

\* dict((pitch, number) for number, pitch in enumerate(pitch_names)):
\* a later pair replaces an earlier one with the same key.
PitchToInt(names) ==
  [p \in Range(names) |->
     (CHOOSE k \in 1..Len(names) :
        /\ names[k] = p
        /\ \A j \in (k + 1)..Len(names) : names[j] # p) - 1]

\* A faulty variant of Window: the slice starts one token late.
WindowShifted(ns, k) == Slice(ns, k + 1, k + 1 + sequence_length)

\* sequence_in = notes[i:i + sequence_length]
Window(ns, k) == Slice(ns, k, k + sequence_length)

\* A faulty variant of Target: notes[i + sequence_length - 1].
TargetLastOfWindow(ns, k) == ns[k + sequence_length]

\* sequence_out = notes[i + sequence_length]   (0-based index)
Target(ns, k) == ns[k + sequence_length + 1]

RECURSIVE Flatten(_)
Flatten(rows) ==
  IF Len(rows) = 0 THEN <<>> ELSE rows[1] \o Flatten(Tail(rows))

EmptyTensor == [shape |-> <<0>>, data |-> <<>>]

\* numpy.reshape(rows, (d1, d2, 1)) of a list of equally long lists:
\* the elements in row-major order, regrouped.
Reshape(rows, d1, d2) ==
  LET flat == Flatten(rows)
  IN  [shape |-> <<d1, d2, 1>>,
       data  |-> [a \in 1..d1 |-> [b \in 1..d2 |->
                    [c \in 1..1 |-> flat[(a - 1) * d2 + (b - 1) + c]]]]]

\* The element count numpy.reshape requires of its argument.
ReshapeFits(rows, d1, d2) == Len(Flatten(rows)) = d1 * d2

\* A faulty variant of Div: the divisor is one short.
DivOffByOne(x, n) == [num |-> x, den |-> n - 1]

\* x / float(n) on a numpy array element: the exact quotient num/den.
Div(x, n) == [num |-> x, den |-> n]

\* input_sequences / float(num_pitch_classes), element by element.
Normalize(t, n) ==
  [shape |-> t.shape,
   data  |-> [a \in 1..Len(t.data) |-> [b \in 1..Len(t.data[a]) |->
                [c \in 1..Len(t.data[a][b]) |-> Div(t.data[a][b][c], n)]]]]

\* max of a non-empty list of ints
MaxOf(ys) == CHOOSE m \in Range(ys) : \A y \in Range(ys) : y <= m

\* keras.utils.to_categorical(y) with num_classes left unset:
\* num_classes = numpy.max(y) + 1, which raises ValueError on an empty y;
\* then a zero matrix (len(y), num_classes) with [r, y[r]] set to 1.
ToCategoricalRaises(ys) == Len(ys) = 0

ToCategorical(ys) ==
  LET num_classes == MaxOf(ys) + 1
  IN  [shape |-> <<Len(ys), num_classes>>,
       data  |-> [r \in 1..Len(ys) |->
                    [c \in 1..num_classes |-> IF c - 1 = ys[r] THEN 1 ELSE 0]]]

\* The token strings the corpora are drawn from: "0.4.7", "C#4", "C4".
Tokens == {<<48, 46, 52, 46, 55>>, <<67, 35, 52>>, <<67, 52>>}

\* The first h tokens of the endless repetition of the pattern p.
Periodic(p, h) == [k \in 1..h |-> p[((k - 1) % Len(p)) + 1]]

\* The corpora: a periodic head of length 0, sequence_length - 1 or
\* sequence_length, followed by any tail of at most MaxTail tokens.
Corpora ==
  {Periodic(p, h) \o t :
     p \in SeqsUpTo(Tokens, MaxPattern) \ {<<>>},
     h \in {0, sequence_length - 1, sequence_length},
     t \in SeqsUpTo(Tokens, MaxTail)}

PSIdle ==
  /\ pitch_names = <<>>
  /\ pitch_to_int = <<>>
  /\ i = 0
  /\ input_sequences = <<>>
  /\ output_sequence = <<>>
  /\ num_sequences = 0
  /\ reshaped = EmptyTensor
  /\ normalized = EmptyTensor
  /\ categorical = EmptyTensor
  /\ ps_raised = "none"

\* lines 78-91: the vocabulary and the two empty lists
PS_Vocabulary ==
  /\ ps_pc = "call"
  /\ pitch_names' = PitchNames(ps_notes)
  /\ pitch_to_int' = PitchToInt(PitchNames(ps_notes))
  /\ input_sequences' = <<>>
  /\ output_sequence' = <<>>
  /\ i' = 0
  /\ ps_pc' = "loop"
  /\ UNCHANGED <<ps_notes, num_pitch_classes, num_sequences, reshaped,
                 normalized, categorical, ps_raised>>
  /\ UNCHANGED gn_vars

\* lines 96-100: one iteration of the loop over range(0, len(notes) - sequence_length)
PS_Loop ==
  /\ ps_pc = "loop"
  /\ i < Len(ps_notes) - sequence_length
  /\ LET sequence_in  == Window(ps_notes, i)
         sequence_out == Target(ps_notes, i)
     IN  /\ input_sequences' =
              Append(input_sequences,
                     [k \in 1..Len(sequence_in) |-> pitch_to_int[sequence_in[k]]])
         /\ output_sequence' = Append(output_sequence, pitch_to_int[sequence_out])
  /\ i' = i + 1
  /\ UNCHANGED <<ps_pc, ps_notes, num_pitch_classes, pitch_names, pitch_to_int,
                 num_sequences, reshaped, normalized, categorical, ps_raised>>
  /\ UNCHANGED gn_vars

\* line 102: the range is exhausted; num_sequences = len(input_sequences)
PS_LoopDone ==
  /\ ps_pc = "loop"
  /\ i >= Len(ps_notes) - sequence_length
  /\ num_sequences' = Len(input_sequences)
  /\ ps_pc' = "reshape"
  /\ UNCHANGED <<ps_notes, num_pitch_classes, pitch_names, pitch_to_int, i,
                 input_sequences, output_sequence, reshaped, normalized,
                 categorical, ps_raised>>
  /\ UNCHANGED gn_vars

\* line 105: numpy.reshape(input_sequences, (num_sequences, sequence_length, 1))
PS_Reshape ==
  /\ ps_pc = "reshape"
  /\ IF ReshapeFits(input_sequences, num_sequences, sequence_length)
     THEN /\ reshaped' = Reshape(input_sequences, num_sequences, sequence_length)
          /\ ps_pc' = "normalize"
          /\ UNCHANGED ps_raised
     ELSE /\ ps_raised' = "ValueError"
          /\ ps_pc' = "raised"
          /\ UNCHANGED reshaped
  /\ UNCHANGED <<ps_notes, num_pitch_classes, pitch_names, pitch_to_int, i,
                 input_sequences, output_sequence, num_sequences, normalized,
                 categorical>>
  /\ UNCHANGED gn_vars

\* line 108: input_sequences / float(num_pitch_classes)
PS_Normalize ==
  /\ ps_pc = "normalize"
  /\ normalized' = Normalize(reshaped, num_pitch_classes)
  /\ ps_pc' = "categorical"
  /\ UNCHANGED <<ps_notes, num_pitch_classes, pitch_names, pitch_to_int, i,
                 input_sequences, output_sequence, num_sequences, reshaped,
                 categorical, ps_raised>>
  /\ UNCHANGED gn_vars

\* line 111: utils.to_categorical(output_sequence)
PS_ToCategorical ==
  /\ ps_pc = "categorical"
  /\ IF ToCategoricalRaises(output_sequence)
     THEN /\ ps_raised' = "ValueError"
          /\ ps_pc' = "raised"
          /\ UNCHANGED categorical
     ELSE /\ categorical' = ToCategorical(output_sequence)
          /\ ps_pc' = "return"
          /\ UNCHANGED ps_raised
  /\ UNCHANGED <<ps_notes, num_pitch_classes, pitch_names, pitch_to_int, i,
                 input_sequences, output_sequence, num_sequences, reshaped,
                 normalized>>
  /\ UNCHANGED gn_vars

\* line 113: return (input_sequences, output_sequence)
PS_Return ==
  /\ ps_pc = "return"
  /\ ps_pc' = "returned"
  /\ UNCHANGED <<ps_notes, num_pitch_classes, pitch_names, pitch_to_int, i,
                 input_sequences, output_sequence, num_sequences, reshaped,
                 normalized, categorical, ps_raised>>
  /\ UNCHANGED gn_vars

(***************************************************************************)
(* get_notes(directory)                                                    *)
(***************************************************************************)
\* str(structure.pitch): the pitch name followed by the octave, when the
\* pitch has one (octave -1 stands for None).
PitchStr(pitch) ==
  IF pitch.octave = -1 THEN pitch.name ELSE pitch.name \o IntToStr(pitch.octave)

\* x inserted into the ascending list s
RECURSIVE InsertAsc(_, _)
InsertAsc(x, s) ==
  IF Len(s) = 0 THEN <<x>>
  ELSE IF x <= s[1] THEN <<x>> \o s
  ELSE <<s[1]>> \o InsertAsc(x, Tail(s))

RECURSIVE SortAsc(_)
SortAsc(s) == IF Len(s) = 0 THEN <<>> ELSE InsertAsc(s[1], SortAsc(Tail(s)))

\* A faulty variant of ChordToken: joined with "," instead of ".".
ChordTokenCommaJoined(normalOrder) ==
  Join(<<44>>, [k \in 1..Len(normalOrder) |-> IntToStr(normalOrder[k])])

\* ".".join(map(str, structure.normalOrder))
ChordToken(normalOrder) ==
  Join(<<46>>, [k \in 1..Len(normalOrder) |-> IntToStr(normalOrder[k])])

\* struct.pack of n as k little-endian bytes; pack("<Q", n) is LittleEndian(n, 8)
RECURSIVE LittleEndian(_, _)
LittleEndian(n, k) ==
  IF k = 0 THEN <<>> ELSE <<n % 256>> \o LittleEndian(n \div 256, k - 1)

\* pickle's save of a str shorter than 256 bytes:
\* SHORT_BINUNICODE (0x8c), the length, the UTF-8 bytes, MEMOIZE (0x94).
SaveStr(str) == <<140, Len(str)>> \o str \o <<148>>

RECURSIVE SaveAll(_)
SaveAll(strs) ==
  IF Len(strs) = 0 THEN <<>> ELSE SaveStr(strs[1]) \o SaveAll(Tail(strs))

\* pickle.dump(obj, file) of a list of fewer than 1000 distinct str objects,
\* protocol 4: PROTO 4, a FRAME header (0x95 and the payload length) when the
\* payload has at least 4 bytes, then EMPTY_LIST (]), MEMOIZE, the items
\* (one item and APPEND (a), or MARK (() the items and APPENDS (e)), STOP (.).
PickleDumps(obj) ==
  LET items   == IF Len(obj) = 0 THEN <<>>
                 ELSE IF Len(obj) = 1 THEN SaveStr(obj[1]) \o <<97>>
                 ELSE <<40>> \o SaveAll(obj) \o <<101>>
      payload == <<93, 148>> \o items \o <<46>>
      frame   == IF Len(payload) >= 4 THEN <<149>> \o LittleEndian(Len(payload), 8) ELSE <<>>
  IN  <<128, 4>> \o frame \o payload

\* pickle.load, which a later run applies to data/notes: the unpickling
\* machine on the opcodes above; lst is the list under construction, items the
\* strings pushed since it.  get_notes itself never reads the file back; the
\* operator serves to state what the bytes written mean.
RECURSIVE Unpickle(_, _, _, _)
Unpickle(b, pos, lst, items) ==
  IF pos > Len(b) THEN [ok |-> FALSE, value |-> <<>>]
  ELSE LET op == b[pos] IN
    IF op = 128 THEN Unpickle(b, pos + 2, lst, items)
    ELSE IF op = 149 THEN Unpickle(b, pos + 9, lst, items)
    ELSE IF op = 93 THEN Unpickle(b, pos + 1, <<>>, <<>>)
    ELSE IF op = 148 \/ op = 40 THEN Unpickle(b, pos + 1, lst, items)
    ELSE IF op = 140 THEN
      Unpickle(b, pos + 2 + b[pos + 1], lst,
               Append(items, SubSeq(b, pos + 2, pos + 1 + b[pos + 1])))
    ELSE IF op = 97 \/ op = 101 THEN Unpickle(b, pos + 1, lst \o items, <<>>)
    ELSE IF op = 46 THEN [ok |-> TRUE, value |-> lst]
    ELSE [ok |-> FALSE, value |-> <<>>]

PickleLoads(b) == Unpickle(b, 1, <<>>, <<>>)

(***************************************************************************)
(* The scores the files are drawn from.  A stream element has a kind (the  *)
(* class isinstance tests), and a pitch or a normalOrder where it has one. *)
(***************************************************************************)
NoPitch == [name |-> <<>>, octave |-> -1]

Note(name, octave) ==
  [kind |-> "Note", pitch |-> [name |-> name, octave |-> octave], normalOrder |-> <<>>]

Chord(normalOrder) ==
  [kind |-> "Chord", pitch |-> NoPitch, normalOrder |-> normalOrder]

Other(kind) == [kind |-> kind, pitch |-> NoPitch, normalOrder |-> <<>>]

\* What music21 yields for one file: whether converter.parse succeeds;
\* what partitionByInstrument and .parts[0] do ("parts": a first part exists,
\* "none": partitionByInstrument returns None, "noparts": parts is empty,
\* "raises": partitionByInstrument raises); the elements of
\* parts[0].recurse(); the elements of .flat.notes.
Score(parses, partition, part0, flat_notes) ==
  [parses |-> parses, partition |-> partition, part0 |-> part0,
   flat_notes |-> flat_notes]

C4 == Note(<<67>>, 4)
Cs4 == Note(<<67, 35>>, 4)
E == Note(<<69>>, -1)
CMajor == Chord(<<0, 4, 7>>)
AMinor == Chord(<<9, 0, 4>>)
Dyad == Chord(<<11, 2>>)

Scores ==
  { Score(TRUE, "parts", <<Other("Instrument"), C4, Other("Rest"), CMajor, C4>>,
          <<C4, CMajor, E, C4>>),
    Score(TRUE, "parts", <<Dyad, Cs4>>, <<Dyad, Cs4>>),
    Score(TRUE, "none", <<>>, <<AMinor, C4, C4>>),
    Score(TRUE, "noparts", <<>>, <<E, CMajor>>),
    Score(TRUE, "raises", <<>>, <<>>),
    Score(FALSE, "none", <<>>, <<>>) }

NoScore == Score(FALSE, "none", <<>>, <<>>)

\* The content of data/notes before the call.
PriorDisk ==
  { [exists |-> FALSE, bytes |-> <<>>],
    [exists |-> TRUE, bytes |-> PickleDumps(<<<<71, 53>>, <<48>>>>)] }

NotReturned == [has |-> FALSE, value |-> <<>>]

GNIdle ==
  /\ file = 0
  /\ parsed_midi = NoScore
  /\ notes_by_instrument = <<>>
  /\ notes = <<>>
  /\ returned = NotReturned
  /\ console = <<>>
  /\ writes = 0

\* line 38: notes = list()
GN_Call ==
  /\ gn_pc = "call"
  /\ notes' = <<>>
  /\ gn_pc' = "for"
  /\ UNCHANGED <<files, disk_before, disk, file, parsed_midi, notes_by_instrument, returned,
                 console, writes>>
  /\ UNCHANGED ps_vars

\* lines 42-43: the next path of glob.glob(directory); print
GN_NextFile ==
  /\ gn_pc = "for"
  /\ file < Len(files)
  /\ file' = file + 1
  /\ console' = Append(console, <<"Parsing file %s", file + 1>>)
  /\ gn_pc' = "parse"
  /\ UNCHANGED <<files, disk_before, disk, parsed_midi, notes_by_instrument, notes, returned,
                 writes>>
  /\ UNCHANGED ps_vars

\* A faulty variant of GN_ParseFails: the failure is swallowed and the file skipped.
GN_ParseFailsSkipped ==
  /\ gn_pc = "parse"
  /\ ~files[file].parses
  /\ gn_pc' = "for"
  /\ UNCHANGED <<files, disk_before, disk, file, parsed_midi, notes_by_instrument, notes,
                 returned, console, writes>>
  /\ UNCHANGED ps_vars

\* line 44: music21.converter.parse(file) raises; nothing catches it
GN_ParseFails ==
  /\ gn_pc = "parse"
  /\ ~files[file].parses
  /\ gn_pc' = "raised"
  /\ UNCHANGED <<files, disk_before, disk, file, parsed_midi, notes_by_instrument, notes,
                 returned, console, writes>>
  /\ UNCHANGED ps_vars

\* line 44: parsed_midi = music21.converter.parse(file)
GN_Parse ==
  /\ gn_pc = "parse"
  /\ files[file].parses
  /\ parsed_midi' = files[file]
  /\ gn_pc' = "try"
  /\ UNCHANGED <<files, disk_before, disk, file, notes_by_instrument, notes, returned,
                 console, writes>>
  /\ UNCHANGED ps_vars

\* lines 49-50: the try block completes
GN_FirstPart ==
  /\ gn_pc = "try"
  /\ parsed_midi.partition = "parts"
  /\ notes_by_instrument' = parsed_midi.part0
  /\ gn_pc' = "iterate"
  /\ UNCHANGED <<files, disk_before, disk, file, parsed_midi, notes, returned, console, writes>>
  /\ UNCHANGED ps_vars

\* A faulty variant of GN_Fallback: the exception leaves the call.
GN_FallbackReRaises ==
  /\ gn_pc = "try"
  /\ parsed_midi.partition # "parts"
  /\ gn_pc' = "raised"
  /\ UNCHANGED <<files, disk_before, disk, file, parsed_midi, notes_by_instrument, notes,
                 returned, console, writes>>
  /\ UNCHANGED ps_vars

\* lines 51-53: the try block raises (AttributeError on None, IndexError on
\* an empty parts, or whatever partitionByInstrument raises); bare except
GN_Fallback ==
  /\ gn_pc = "try"
  /\ parsed_midi.partition # "parts"
  /\ notes_by_instrument' = parsed_midi.flat_notes
  /\ gn_pc' = "iterate"
  /\ UNCHANGED <<files, disk_before, disk, file, parsed_midi, notes, returned, console, writes>>
  /\ UNCHANGED ps_vars

\* A faulty variant of GN_Structure: a token already collected is not appended again.
GN_StructureDeduplicated ==
  /\ gn_pc = "iterate"
  /\ notes_by_instrument # <<>>
  /\ LET structure == Head(notes_by_instrument)
         token == IF structure.kind = "Note" THEN PitchStr(structure.pitch)
                  ELSE ChordToken(structure.normalOrder)
     IN  notes' = IF structure.kind \in {"Note", "Chord"} /\ token \notin Range(notes)
                  THEN Append(notes, token) ELSE notes
  /\ notes_by_instrument' = Tail(notes_by_instrument)
  /\ UNCHANGED <<files, disk_before, disk, gn_pc, file, parsed_midi, returned, console, writes>>
  /\ UNCHANGED ps_vars

\* lines 56-62: one element of the stream
GN_Structure ==
  /\ gn_pc = "iterate"
  /\ notes_by_instrument # <<>>
  /\ LET structure == Head(notes_by_instrument)
     IN  notes' = IF structure.kind = "Note"
                  THEN Append(notes, PitchStr(structure.pitch))
                  ELSE IF structure.kind = "Chord"
                  THEN Append(notes, ChordToken(structure.normalOrder))
                  ELSE notes
  /\ notes_by_instrument' = Tail(notes_by_instrument)
  /\ UNCHANGED <<files, disk_before, disk, gn_pc, file, parsed_midi, returned, console, writes>>
  /\ UNCHANGED ps_vars

\* line 56: the stream is exhausted; back to the for statement of line 42
GN_EndOfStream ==
  /\ gn_pc = "iterate"
  /\ notes_by_instrument = <<>>
  /\ gn_pc' = "for"
  /\ UNCHANGED <<files, disk_before, disk, file, parsed_midi, notes_by_instrument, notes,
                 returned, console, writes>>
  /\ UNCHANGED ps_vars

\* A faulty variant of GN_Dump: the dump sits inside the for loop.
GN_DumpAfterAnyFile ==
  /\ gn_pc = "for"
  /\ disk' = [exists |-> TRUE, bytes |-> PickleDumps(notes)]
  /\ writes' = writes + 1
  /\ gn_pc' = IF file >= Len(files) THEN "return" ELSE "for"
  /\ UNCHANGED <<files, disk_before, file, parsed_midi, notes_by_instrument, notes, returned,
                 console>>
  /\ UNCHANGED ps_vars

\* lines 66-67: glob's list is exhausted; open('data/notes', 'wb') truncates
\* or creates the file, pickle.dump writes it
GN_Dump ==
  /\ gn_pc = "for"
  /\ file >= Len(files)
  /\ disk' = [exists |-> TRUE, bytes |-> PickleDumps(notes)]
  /\ writes' = writes + 1
  /\ gn_pc' = "return"
  /\ UNCHANGED <<files, disk_before, file, parsed_midi, notes_by_instrument, notes, returned,
                 console>>
  /\ UNCHANGED ps_vars

\* line 69: return notes
GN_Return ==
  /\ gn_pc = "return"
  /\ returned' = [has |-> TRUE, value |-> notes]
  /\ gn_pc' = "returned"
  /\ UNCHANGED <<files, disk_before, disk, file, parsed_midi, notes_by_instrument, notes,
                 console, writes>>
  /\ UNCHANGED ps_vars

(***************************************************************************)
(* The two specifications: a call of get_notes on any list of at most      *)
(* MaxFiles files, and a call of prepare_sequences on any of the corpora   *)
(* with any class count up to MaxClasses.                                  *)
(***************************************************************************)
InitGetNotes ==
  /\ files \in SeqsUpTo(Scores, MaxFiles)
  /\ disk \in PriorDisk
  /\ disk_before = disk
  /\ gn_pc = "call"
  /\ GNIdle
  /\ ps_pc = "idle"
  /\ ps_notes = <<>>
  /\ num_pitch_classes = 0
  /\ PSIdle

NextGetNotes ==
  \/ GN_Call
  \/ GN_NextFile
  \/ GN_Parse
  \/ GN_ParseFails
  \/ GN_FirstPart
  \/ GN_Fallback
  \/ GN_Structure
  \/ GN_EndOfStream
  \/ GN_Dump
  \/ GN_Return

SpecGetNotes == InitGetNotes /\ [][NextGetNotes]_vars

InitPrepare ==
  /\ ps_notes \in Corpora
  /\ num_pitch_classes \in 1..MaxClasses
  /\ ps_pc = "call"
  /\ PSIdle
  /\ files = <<>>
  /\ disk = [exists |-> FALSE, bytes |-> <<>>]
  /\ disk_before = disk
  /\ gn_pc = "idle"
  /\ GNIdle

NextPrepare ==
  \/ PS_Vocabulary
  \/ PS_Loop
  \/ PS_LoopDone
  \/ PS_Reshape
  \/ PS_Normalize
  \/ PS_ToCategorical
  \/ PS_Return

SpecPrepare == InitPrepare /\ [][NextPrepare]_vars

(***************************************************************************)
(* Properties of prepare_sequences, checked under SpecPrepare.             *)
(***************************************************************************)
\* The number of distinct tokens of the corpus.
V == Cardinality(Range(ps_notes))

\* The loop of lines 96-100 has run to its end.
LoopOver == ps_pc \in {"reshape", "normalize", "categorical", "return", "returned", "raised"}

RECURSIVE Reverse(_)
Reverse(s) == IF Len(s) = 0 THEN <<>> ELSE Append(Reverse(Tail(s)), s[1])

\* C1: for a corpus longer than the window length W, the loop leaves exactly
\* len(C) - W examples, example k (k = 1, 2, ...) starting at offset k - 1:
\* its window holds the codes of the W tokens from that offset on, in order,
\* and its target is the code of the token right after the window.
C1_Windowing ==
  (LoopOver /\ Len(ps_notes) > sequence_length) =>
    /\ Len(input_sequences) = Len(ps_notes) - sequence_length
    /\ Len(output_sequence) = Len(ps_notes) - sequence_length
    /\ \A k \in 1..(Len(ps_notes) - sequence_length) :
         /\ Len(input_sequences[k]) = sequence_length
         /\ \A j \in 1..sequence_length :
              input_sequences[k][j] = pitch_to_int[ps_notes[(k - 1) + j]]
         /\ output_sequence[k] = pitch_to_int[ps_notes[(k - 1) + sequence_length + 1]]

\* A corpus of W + 2 tokens has been windowed into two examples whose
\* targets differ and whose windows differ.
C1_Witness ==
  /\ ps_pc = "returned"
  /\ Len(ps_notes) = sequence_length + 2
  /\ Len(input_sequences) = 2
  /\ output_sequence[1] # output_sequence[2]
  /\ input_sequences[1] # input_sequences[2]

\* C2: the vocabulary maps the distinct tokens of the corpus one-to-one onto
\* 0..V-1, in the lexicographic order of the token strings: the code of a
\* token is the number of distinct tokens below it, and the reversed and
\* doubled corpus (other order, other multiplicities) gets the same mapping.
C2_VocabularyBijection ==
  (ps_pc \notin {"idle", "call"}) =>
    /\ DOMAIN pitch_to_int = Range(ps_notes)
    /\ \A a, b \in Range(ps_notes) : a # b => pitch_to_int[a] # pitch_to_int[b]
    /\ {pitch_to_int[a] : a \in Range(ps_notes)} = 0..(V - 1)
    /\ \A a, b \in Range(ps_notes) :
         StrLess(a, b) <=> pitch_to_int[a] < pitch_to_int[b]
    /\ \A a \in Range(ps_notes) :
         pitch_to_int[a] = Cardinality({u \in Range(ps_notes) : StrLess(u, a)})
    /\ PitchToInt(PitchNames(Reverse(ps_notes) \o ps_notes)) = pitch_to_int

\* A vocabulary of three tokens has been built from a corpus whose first
\* token is the last in sorted order and in which a token repeats.
C2_Witness ==
  /\ ps_pc = "loop"
  /\ V = 3
  /\ Len(ps_notes) > 3
  /\ pitch_to_int[ps_notes[1]] = 2

\* C3: a corpus no longer than the window length yields zero examples and
\* the call completes: no step raises, and what it returns are an empty input
\* tensor of shape (0, W, 1) and an empty target tensor.
C3_ShortCorpusReturnsEmpty ==
  (Len(ps_notes) <= sequence_length /\ ps_pc \notin {"idle", "call", "loop"}) =>
    /\ num_sequences = 0
    /\ ps_pc # "raised"
    /\ ps_pc = "returned" =>
         /\ normalized = [shape |-> <<0, sequence_length, 1>>, data |-> <<>>]
         /\ categorical.data = <<>>

\* Each row of the matrix has exactly one 1, at column y[r] (0-based), and 0 elsewhere.
OneHotRows(m, ys) ==
  /\ Len(m.data) = Len(ys)
  /\ \A r \in 1..Len(ys) :
       /\ Len(m.data[r]) = m.shape[2]
       /\ \A c \in 1..Len(m.data[r]) :
            m.data[r][c] = (IF c - 1 = ys[r] THEN 1 ELSE 0)
       /\ Cardinality({c \in 1..Len(m.data[r]) : m.data[r][c] = 1}) = 1

\* C4: for a corpus that yields examples, the returned target tensor has one
\* one-hot row per example, in example order, each row of width V.
C4_TargetOneHotWidthV ==
  (ps_pc = "returned" /\ num_sequences > 0) =>
    /\ categorical.shape = <<num_sequences, V>>
    /\ OneHotRows(categorical, output_sequence)

\* num/den lies in [0, (n-1)/n].
InUnitRange(x, n) ==
  /\ n > 0
  /\ x.den > 0
  /\ x.num >= 0
  /\ x.num * n <= (n - 1) * x.den

AllValuesInRange ==
  /\ \A a \in 1..Len(normalized.data) : \A b \in 1..Len(normalized.data[a]) :
       \A c \in 1..Len(normalized.data[a][b]) :
         InUnitRange(normalized.data[a][b][c], num_pitch_classes)
  /\ \A a \in 1..Len(input_sequences) : \A b \in 1..Len(input_sequences[a]) :
       input_sequences[a][b] <= num_pitch_classes - 1

Normalized == ps_pc \in {"categorical", "return", "returned", "raised"}

\* C5 as stated: for every call that yields examples, whatever class count
\* the caller passes, every value of the input tensor lies in
\* [0, (num_pitch_classes - 1)/num_pitch_classes].
C5_ValuesInRangeForEveryCall ==
  (Normalized /\ num_sequences > 0) => AllValuesInRange

\* C5, amended: the same, for the calls whose class count is at least the
\* number of distinct tokens of the corpus.
C5_ValuesInRangeWhenCountCoversVocabulary ==
  (Normalized /\ num_sequences > 0 /\ num_pitch_classes >= V) =>
    /\ normalized.shape = <<num_sequences, sequence_length, 1>>
    /\ \A a \in 1..num_sequences : \A b \in 1..sequence_length :
         normalized.data[a][b][1].num = input_sequences[a][b]
    /\ AllValuesInRange

\* The class count equals the vocabulary size 3 and the largest value,
\* 2/3, occurs in the normalised tensor.
C5_Witness ==
  /\ ps_pc = "returned"
  /\ V = 3
  /\ num_pitch_classes = 3
  /\ num_sequences > 0
  /\ normalized.data[1][1][1] = [num |-> 2, den |-> 3]

(***************************************************************************)
(* Properties of get_notes, checked under SpecGetNotes.                    *)
(***************************************************************************)
IsNoteOrChord(structure) == structure.kind \in {"Note", "Chord"}

\* The stream the call iterates for a score: the first part when there is
\* one, the flattened notes otherwise.
SelectedStream(score) ==
  IF score.partition = "parts" THEN score.part0 ELSE score.flat_notes

\* One token per note and per chord of the stream, in stream order.
TokensOf(stream) ==
  LET kept == SelectSeq(stream, IsNoteOrChord)
  IN  [k \in 1..Len(kept) |->
         IF kept[k].kind = "Note" THEN PitchStr(kept[k].pitch)
         ELSE ChordToken(kept[k].normalOrder)]

\* The tokens of the first n files, file after file.
CorpusOf(fs, n) == Flatten([k \in 1..n |-> TokensOf(SelectedStream(fs[k]))])

AllParse == \A k \in 1..Len(files) : files[k].parses

\* The position of the first file that fails to parse.
FirstFailing == CHOOSE k \in 1..Len(files) :
                  ~files[k].parses /\ \A j \in 1..(k - 1) : files[j].parses

\* C6: when some file fails to parse, the call never returns a corpus and
\* never writes data/notes, which keeps the content it had before the call;
\* no file after the failing one is taken up; and once the failure has
\* propagated the call does nothing more.
C6_ParseFailureAborts ==
  (gn_pc # "idle" /\ ~AllParse) =>
    /\ ~returned.has
    /\ writes = 0
    /\ disk = disk_before
    /\ file <= FirstFailing
    /\ Len(console) <= FirstFailing
    /\ gn_pc \notin {"return", "returned"}
    /\ gn_pc = "raised" => (file = FirstFailing /\ ~ENABLED NextGetNotes)

\* The second file failed to parse after tokens had been collected from the
\* first, with an earlier data/notes in place.
C6_Witness ==
  /\ gn_pc = "raised"
  /\ file = 2
  /\ notes # <<>>
  /\ disk_before.exists
  /\ disk = disk_before

\* C7: the corpus returned is the concatenation, in file order, of each
\* file's tokens in stream order, one per note and per chord and none for
\* any other element; and at every for-statement the list holds exactly the
\* tokens of the files taken up so far.
C7_CorpusIsConcatenation ==
  /\ returned.has =>
       /\ returned.value = CorpusOf(files, Len(files))
       /\ Len(returned.value) =
            Len(Flatten([k \in 1..Len(files) |->
                           SelectSeq(SelectedStream(files[k]), IsNoteOrChord)]))
  /\ gn_pc = "for" => notes = CorpusOf(files, file)

\* Two files have been returned as one corpus in which a token repeats,
\* a rest and an instrument were passed over, and the last token of the first
\* file is directly followed by the first token of the second.
C7_Witness ==
  /\ returned.has
  /\ Len(files) = 2
  /\ files[1].partition = "parts"
  /\ Len(files[1].part0) = 5
  /\ Len(TokensOf(SelectedStream(files[1]))) = 3
  /\ Len(returned.value) = 6
  /\ returned.value[1] = returned.value[3]
  /\ returned.value[4] = TokensOf(SelectedStream(files[2]))[1]

\* str.split(sep) for a one-character sep
RECURSIVE Split(_, _, _)
Split(str, sep, cur) ==
  IF Len(str) = 0 THEN <<cur>>
  ELSE IF str[1] = sep THEN <<cur>> \o Split(Tail(str), sep, <<>>)
  ELSE Split(Tail(str), sep, Append(cur, str[1]))

\* int(str) for a string of decimal digits without sign; -1 for any other string
RECURSIVE ParseInt(_)
ParseInt(str) ==
  IF Len(str) = 0 \/ \E k \in 1..Len(str) : str[k] \notin 48..57 THEN -1
  ELSE IF Len(str) = 1 THEN str[1] - 48
  ELSE ParseInt(SubSeq(str, 1, Len(str) - 1)) * 10 + (str[Len(str)] - 48)

\* [int(x) for x in token.split(".")]
ParseDotted(token) ==
  LET fields == Split(token, 46, <<>>)
  IN  [k \in 1..Len(fields) |-> ParseInt(fields[k])]

\* The length of the dot-joined canonical decimals of the integers of s.
RECURSIVE DottedLen(_)
DottedLen(s) ==
  IF Len(s) = 0 THEN 0
  ELSE (IF s[1] < 10 THEN 1 ELSE 2) + (IF Len(s) > 1 THEN 1 ELSE 0) + DottedLen(Tail(s))

\* The step at hand takes a chord from the stream.
ChordStep ==
  /\ gn_pc = "iterate"
  /\ notes_by_instrument # <<>>
  /\ Head(notes_by_instrument).kind = "Chord"

\* The step appends one token, which reads as the integers of s: dot-separated decimals.
AppendsDotted(s) ==
  /\ Len(notes') = Len(notes) + 1
  /\ SubSeq(notes', 1, Len(notes)) = notes
  /\ ParseDotted(notes'[Len(notes')]) = s
  /\ Len(notes'[Len(notes')]) = DottedLen(s)

\* C8 as stated: the token appended for a chord lists the pitch classes of
\* its normalOrder in ascending order, whatever order normalOrder has them in.
C8_ChordTokenAscending ==
  [][ChordStep => AppendsDotted(SortAsc(Head(notes_by_instrument).normalOrder))]_vars

\* C8, amended: the token appended for a chord lists the integers of its
\* normalOrder in the order normalOrder has them in.
C8_ChordTokenInReportedOrder ==
  [][ChordStep => AppendsDotted(Head(notes_by_instrument).normalOrder)]_vars

\* The chord with normalOrder [9, 0, 4] has just been appended as "9.0.4".
C8_Witness ==
  /\ gn_pc = "iterate"
  /\ notes # <<>>
  /\ notes[Len(notes)] = <<57, 46, 48, 46, 52>>
  /\ parsed_midi.flat_notes[1].normalOrder = <<9, 0, 4>>
  /\ Len(notes_by_instrument) = 2

\* C9: data/notes is written at most once, and only when every file has
\* been taken up; until then it has its content of before the call; in a call
\* in which all files parse it has been written exactly once when the call
\* returns, and unpickling it gives the list returned, token for token.
C9_ArtifactWrittenOnceAtEnd ==
  /\ writes <= 1
  /\ writes = 0 => disk = disk_before
  /\ writes > 0 => (file = Len(files) /\ AllParse /\ gn_pc \in {"return", "returned"})
  /\ (gn_pc \in {"return", "returned"}) =>
       /\ AllParse
       /\ writes = 1
       /\ disk.exists
       /\ PickleLoads(disk.bytes) = [ok |-> TRUE, value |-> notes]
  /\ returned.has => PickleLoads(disk.bytes).value = returned.value

\* A corpus of several tokens from two files has been returned and is on
\* disk in place of the earlier content.
C9_Witness ==
  /\ returned.has
  /\ Len(files) = 2
  /\ Len(returned.value) > 2
  /\ disk_before.exists
  /\ disk # disk_before
  /\ writes = 1

\* A call on no file at all has written the empty list.
C9_WitnessNoFile ==
  /\ returned.has
  /\ files = <<>>
  /\ disk.bytes = <<128, 4, 93, 148, 46>>

\* C10: the step after a successful parse always leads to the iteration,
\* over the first part when partitioning gave one and over the flattened
\* notes in every other case; it leaves the tokens collected so far, the
\* console and everything else as they were.
C10_PartitionFailureFallsBack ==
  [][gn_pc = "try" =>
       /\ gn_pc' = "iterate"
       /\ notes_by_instrument' = SelectedStream(parsed_midi)
       /\ UNCHANGED <<files, disk, disk_before, file, parsed_midi, notes,
                      returned, console, writes>>]_vars

\* In the second file partitioning gave no parts, the flattened notes were
\* taken instead, and the tokens of the first file are still there.
C10_Witness ==
  /\ gn_pc = "iterate"
  /\ file = 2
  /\ parsed_midi.partition = "noparts"
  /\ notes_by_instrument = parsed_midi.flat_notes
  /\ notes_by_instrument # <<>>
  /\ notes = CorpusOf(files, 1)
  /\ notes # <<>>
  /\ Len(console) = 2

====
